---- MODULE Spec2Model ----
(***************************************************************************)
(* Model of _tools/genindex/genindex.py: extract_section, parse_list_items, *)
(* render_html and the driver main.                                         *)
(*                                                                          *)
(* Text is modelled by TLA+ strings; a list of lines by a sequence of       *)
(* strings; a (title, url, description) tuple by a 3-tuple of strings.      *)
(* A call either returns or raises: [raised, value, message].               *)
(***************************************************************************)
EXTENDS Integers, Sequences, FiniteSets, TLC

VARIABLES
    pc,             \* the statement of main() that runs next
    readme,         \* content of the file README.md
    index,          \* content of the file index.html
    readme_lines,   \* main's local readme_lines
    section_lines,  \* main's local section_lines
    tools,          \* main's local tools
    html_output,    \* main's local html_output
    stdout,         \* what main has printed
    error           \* message of the RuntimeError that ended the run, or ""

vars == <<pc, readme, index, readme_lines, section_lines, tools, html_output,
          stdout, error>>

(***************************************************************************)
(* Bounds of the checked inputs.                                           *)
(***************************************************************************)
MaxDocLines == 3
MaxSectionLines == 3
MaxTools == 3

(***************************************************************************)
(* str primitives                                                          *)
(***************************************************************************)
Char(s, i) == SubSeq(s, i, i)

\* The whitespace str.strip() removes and \s matches, within the alphabet used.
Whitespace == {" ", "\t", "\n", "\r"}

IsSpace(c) == c \in Whitespace

\* First position >= i of s holding no whitespace, or Len(s) + 1.
RECURSIVE SkipSpace(_, _)
SkipSpace(s, i) ==
    IF i > Len(s) THEN i
    ELSE IF IsSpace(Char(s, i)) THEN SkipSpace(s, i + 1)
    ELSE i

\* Last position <= i of s holding no whitespace, or 0.
RECURSIVE SkipSpaceBack(_, _)
SkipSpaceBack(s, i) ==
    IF i < 1 THEN 0
    ELSE IF IsSpace(Char(s, i)) THEN SkipSpaceBack(s, i - 1)
    ELSE i

lstrip(s) == SubSeq(s, SkipSpace(s, 1), Len(s))

rstrip(s) == SubSeq(s, 1, SkipSpaceBack(s, Len(s)))

strip(s) == rstrip(lstrip(s))

startswith(s, p) == Len(s) >= Len(p) /\ SubSeq(s, 1, Len(p)) = p

UpperCase == "ABCDEFGHIJKLMNOPQRSTUVWXYZ"
LowerCase == "abcdefghijklmnopqrstuvwxyz"

\* The lower-case letter of each upper-case letter.
ToLower ==
    [c \in {Char(UpperCase, k) : k \in 1..Len(UpperCase)} |->
        Char(LowerCase, CHOOSE k \in 1..Len(UpperCase) : Char(UpperCase, k) = c)]

LowerChar(c) == IF c \in DOMAIN ToLower THEN ToLower[c] ELSE c

RECURSIVE lower(_)
lower(s) ==
    IF s = "" THEN s ELSE LowerChar(Head(s)) \o lower(Tail(s))

\* s.replace(old, new) for a one-character old
RECURSIVE replace(_, _, _)
replace(s, old, new) ==
    IF s = "" THEN s
    ELSE (IF Head(s) = old THEN new ELSE Head(s)) \o replace(Tail(s), old, new)

\* sep.join(parts)
RECURSIVE join(_, _)
join(sep, parts) ==
    IF parts = <<>> THEN ""
    ELSE IF Len(parts) = 1 THEN parts[1]
    ELSE parts[1] \o sep \o join(sep, Tail(parts))

\* First position >= i of s holding the character stop, or Len(s) + 1.
RECURSIVE RunEnd(_, _, _)
RunEnd(s, i, stop) ==
    IF i > Len(s) THEN i
    ELSE IF Char(s, i) = stop THEN i
    ELSE RunEnd(s, i + 1, stop)

\* text.splitlines(), for the line boundary "\n": a line ends at each "\n",
\* and text after the last "\n" is a last line when it is not empty.
RECURSIVE SplitFrom(_, _)
SplitFrom(text, i) ==
    IF i > Len(text) THEN <<>>
    ELSE LET e == RunEnd(text, i, "\n")
         IN  <<SubSeq(text, i, e - 1)>> \o SplitFrom(text, e + 1)

splitlines(text) == SplitFrom(text, 1)

(***************************************************************************)
(* extract_section                                                         *)
(***************************************************************************)
\* Mutant of IsListHeading: the line is lower-cased but not trimmed.
IsListHeading_NoStrip(line) == lower(line) = "## list of tools"

\* The heading test of the first loop.
IsListHeading(line) == lower(strip(line)) = "## list of tools"

\* The first loop: start = idx + 1 for the first heading line at 0-based idx
\* (idx is the 1-based position here), or 0 for start = None, since a found
\* start is at least 1.
RECURSIVE FindStart(_, _)
FindStart(lines, idx) ==
    IF idx > Len(lines) THEN 0
    ELSE IF IsListHeading(lines[idx]) THEN idx
    ELSE FindStart(lines, idx + 1)

\* Mutant of CollectSection: the loop also stops at an indented "#" line.
RECURSIVE CollectSection_StopAtIndentedHash(_)
CollectSection_StopAtIndentedHash(rest) ==
    IF rest = <<>> THEN <<>>
    ELSE IF startswith(lstrip(Head(rest)), "#") THEN <<>>
    ELSE <<Head(rest)>> \o CollectSection_StopAtIndentedHash(Tail(rest))

\* The second loop over lines[start:]: append until a line starts with "#".
RECURSIVE CollectSection(_)
CollectSection(rest) ==
    IF rest = <<>> THEN <<>>
    ELSE IF startswith(Head(rest), "#") THEN <<>>
    ELSE <<Head(rest)>> \o CollectSection(Tail(rest))

HeadingError == "Could not find '## List of tools' heading in README.md"

extract_section(lines) ==
    LET start == FindStart(lines, 1)
    IN  IF start = 0
        THEN [raised |-> TRUE, value |-> <<>>, message |-> HeadingError]
        ELSE [raised |-> FALSE,
              value |-> CollectSection(SubSeq(lines, start + 1, Len(lines))),
              message |-> ""]

(***************************************************************************)
(* parse_list_items                                                        *)
(***************************************************************************)
\* (.+) tried at position k, the \s* before it giving characters back down to
\* position lo: "." matches any character but "\n", and .+ runs to the next
\* "\n" or the end. The result is the group's text, or "" when nothing matches.
RECURSIVE DotPlus(_, _, _)
DotPlus(s, k, lo) ==
    IF k < lo THEN ""
    ELSE IF k <= Len(s) /\ Char(s, k) # "\n"
         THEN SubSeq(s, k, RunEnd(s, k, "\n") - 1)
         ELSE DotPlus(s, k - 1, lo)

NoMatch == [matched |-> FALSE, groups |-> <<>>]

\* The third group of the pattern: (.+), here from position k, backtracking
\* to lo.
DescGroup(s, k, lo) == DotPlus(s, k, lo)

\* pattern.match(s) for pattern = \* \[([^\]]+)\]\(([^)]+)\)\s*-\s*(.+)
\* match() anchors at the start of s and not at its end.
PatternMatch(s) ==
    IF ~startswith(s, "* [") THEN NoMatch
    ELSE
    LET t0 == 4
        t1 == RunEnd(s, t0, "]")
    IN  IF t1 = t0 \/ t1 > Len(s) THEN NoMatch
        ELSE IF t1 + 1 > Len(s) \/ Char(s, t1 + 1) # "(" THEN NoMatch
        ELSE
        LET u0 == t1 + 2
            u1 == RunEnd(s, u0, ")")
        IN  IF u1 = u0 \/ u1 > Len(s) THEN NoMatch
            ELSE
            LET h == SkipSpace(s, u1 + 1)
            IN  IF h > Len(s) \/ Char(s, h) # "-" THEN NoMatch
                ELSE
                LET desc == DescGroup(s, SkipSpace(s, h + 1), h + 1)
                IN  IF desc = "" THEN NoMatch
                    ELSE [matched |-> TRUE,
                          groups |-> <<SubSeq(s, t0, t1 - 1),
                                       SubSeq(s, u0, u1 - 1),
                                       desc>>]

\* Mutant of IsBulletLine: the line is trimmed at both ends before the test.
IsBulletLine_Strip(line) == startswith(strip(line), "* ")

\* The test that a line starts a new item.
IsBulletLine(line) == startswith(lstrip(line), "* ")

\* buffer += " " + line.strip()
Continue(buffer, line) == buffer \o " " \o strip(line)

\* Mutant of MatchedText: the buffer is matched as it is.
MatchedText_NoStrip(buffer) == buffer

\* The text handed to pattern.match for a buffer.
MatchedText(buffer) == strip(buffer)

ParseError(buffer) == "Could not parse list item: " \o buffer

\* Mutant of FlushBuffer: an item that does not match is dropped and the
\* parse goes on.
FlushBuffer_SkipsBadItem(st) ==
    IF st.buffer = "" THEN st
    ELSE
    LET text == MatchedText(st.buffer)
        m == PatternMatch(text)
    IN  IF ~m.matched
        THEN [st EXCEPT !.matched = Append(@, text)]
        ELSE [st EXCEPT !.items = Append(@, m.groups),
                        !.matched = Append(@, text)]

\* The block "if buffer: match ...; raise or items.append", which the code has
\* twice (in the loop and after it). st.matched records the texts handed to
\* pattern.match, in order.
FlushBuffer(st) ==
    IF st.buffer = "" THEN st
    ELSE
    LET text == MatchedText(st.buffer)
        m == PatternMatch(text)
    IN  IF ~m.matched
        THEN [st EXCEPT !.raised = TRUE, !.message = ParseError(st.buffer),
                        !.matched = Append(@, text)]
        ELSE [st EXCEPT !.items = Append(@, m.groups),
                        !.matched = Append(@, text)]

\* Mutant of ParseLine: a line that is no bullet line is appended to the
\* buffer even when no item is open.
ParseLine_KeepsLeadingText(st, line) ==
    IF IsBulletLine(line)
    THEN LET f == FlushBuffer(st)
         IN  IF f.raised THEN f ELSE [f EXCEPT !.buffer = strip(line)]
    ELSE [st EXCEPT !.buffer = Continue(@, line)]

\* One iteration of "for line in lines".
ParseLine(st, line) ==
    IF IsBulletLine(line)
    THEN LET f == FlushBuffer(st)
         IN  IF f.raised THEN f ELSE [f EXCEPT !.buffer = strip(line)]
    ELSE IF st.buffer # "" THEN [st EXCEPT !.buffer = Continue(@, line)]
    ELSE st

RECURSIVE ParseLoop(_, _)
ParseLoop(st, rest) ==
    IF st.raised \/ rest = <<>> THEN st
    ELSE ParseLoop(ParseLine(st, Head(rest)), Tail(rest))

ParseStart ==
    [buffer |-> "", items |-> <<>>, matched |-> <<>>, raised |-> FALSE,
     message |-> ""]

\* The run of parse_list_items on lines, to its return or its raise.
ParseRun(lines) ==
    LET st == ParseLoop(ParseStart, lines)
    IN  IF st.raised THEN st ELSE FlushBuffer(st)

parse_list_items(lines) ==
    LET st == ParseRun(lines)
    IN  [raised |-> st.raised,
         value |-> IF st.raised THEN <<>> ELSE st.items,
         message |-> st.message]

(***************************************************************************)
(* render_html                                                             *)
(***************************************************************************)
\* Mutant of html_escape: quote=False, the quotes are left as they are.
html_escape_NoQuote(s) ==
    replace(replace(replace(s, "&", "&amp;"), "<", "&lt;"), ">", "&gt;")

\* html.escape(s, quote=True), the default that both calls use: "&" first,
\* then "<", ">", the double quote and the single quote.
html_escape(s) ==
    replace(replace(replace(replace(replace(s,
        "&", "&amp;"), "<", "&lt;"), ">", "&gt;"), "\"", "&quot;"), "'", "&#x27;")

HeaderLines ==
    << "<!doctype html>",
       "<html>",
       "<head>",
       "  <meta charset=\"utf-8\">",
       "  <title>eliben browser-tools</title>",
       "</head>",
       "<body>",
       "  See <a href=\"https://github.com/eliben/browser-tools\">the GitHub repository</a> for details",
       "  <h1>List of tools</h1>",
       "  <ul>" >>

FooterLines ==
    << "  </ul>",
       "</body>",
       "</html>" >>

\* Mutant of ListItem: the " - " and the description are appended even when
\* the description is empty.
ListItem_AlwaysDash(tool) ==
    "    <li><a href=\"" \o html_escape(tool[2]) \o "\">" \o html_escape(tool[1])
        \o "</a>" \o " - " \o html_escape(tool[3]) \o "</li>"

\* The body of "for title, url, desc in tools" for one tuple.
ListItem(tool) ==
    LET title == tool[1]
        url == tool[2]
        desc == tool[3]
        li == "    <li><a href=\"" \o html_escape(url) \o "\">"
                  \o html_escape(title) \o "</a>"
    IN  (IF desc # "" THEN li \o " - " \o html_escape(desc) ELSE li) \o "</li>"

ListItems(ts) == [i \in 1..Len(ts) |-> ListItem(ts[i])]

render_html(ts) ==
    join("\n", HeaderLines \o ListItems(ts) \o FooterLines) \o "\n"

(***************************************************************************)
(* Inputs                                                                  *)
(***************************************************************************)
SeqsUpTo(S, n) == UNION {[1..k -> S] : k \in 0..n}

\* Lines of README.md.
DocLines ==
    { "## List of tools",
      " ## LIST OF TOOLS\t",
      "## List of tools:",
      "# Next",
      " # indented",
      "",
      "* [Foo](http://a.com) - does foo",
      "* [R&D](u?x=1&y=\"2\") - <b> it's",
      "* [a](u)",
      "more" }

\* Lines handed to parse_list_items.
SectionLines ==
    { "* [Foo](http://a.com) - does foo",
      "  * [f(x)](v)-e  ",
      "* [a](u) -",
      "* [a](u)",
      "* [](u) - d",
      "* [a](u) x - d",
      "* ",
      "[b](w) - c",
      "*[c](u) - d",
      "more",
      "" }

\* Tuples handed to render_html.
ToolSet ==
    { <<"Foo", "http://a.com", "does foo">>,
      <<"R&D Tool", "u?a=1&b=2", "x < y > z">>,
      <<"say \"hi\"", "u\"q", "it's">>,
      <<"<NoDesc>", "v", "">>,
      <<"&lt;", "&amp;", "&quot;">> }

\* README.md holding the given lines, each ended by a newline.
FileText(lines) == join("", [i \in 1..Len(lines) |-> lines[i] \o "\n"])

\* What index.html holds before the run ("" for a file that is not there).
PreviousIndex == {"", "<html>stale</html>\n"}

(***************************************************************************)
(* main                                                                    *)
(***************************************************************************)
Locals0 ==
    /\ readme_lines = <<>>
    /\ section_lines = <<>>
    /\ tools = <<>>
    /\ html_output = ""
    /\ stdout = <<>>
    /\ error = ""

Init ==
    /\ pc = "read_text"
    /\ readme \in {FileText(d) : d \in SeqsUpTo(DocLines, MaxDocLines)}
    /\ index \in PreviousIndex
    /\ Locals0

\* readme_lines = readme_path.read_text(encoding="utf-8").splitlines()
ReadReadme ==
    /\ pc = "read_text"
    /\ readme_lines' = splitlines(readme)
    /\ pc' = "extract_section"
    /\ UNCHANGED <<readme, index, section_lines, tools, html_output, stdout, error>>

\* section_lines = extract_section(readme_lines)
ExtractSection ==
    /\ pc = "extract_section"
    /\ LET r == extract_section(readme_lines)
       IN  IF r.raised
           THEN /\ pc' = "aborted"
                /\ error' = r.message
                /\ UNCHANGED section_lines
           ELSE /\ pc' = "parse_list_items"
                /\ section_lines' = r.value
                /\ UNCHANGED error
    /\ UNCHANGED <<readme, index, readme_lines, tools, html_output, stdout>>

\* Mutant of ParseListItems: index.html is opened for writing before the
\* parse, so a failed parse leaves it empty.
ParseListItems_TruncatesOnFailure ==
    /\ pc = "parse_list_items"
    /\ LET r == parse_list_items(section_lines)
       IN  IF r.raised
           THEN /\ pc' = "aborted"
                /\ error' = r.message
                /\ index' = ""
                /\ UNCHANGED tools
           ELSE /\ pc' = "render_html"
                /\ tools' = r.value
                /\ UNCHANGED <<error, index>>
    /\ UNCHANGED <<readme, readme_lines, section_lines, html_output, stdout>>

\* tools = parse_list_items(section_lines)
ParseListItems ==
    /\ pc = "parse_list_items"
    /\ LET r == parse_list_items(section_lines)
       IN  IF r.raised
           THEN /\ pc' = "aborted"
                /\ error' = r.message
                /\ UNCHANGED tools
           ELSE /\ pc' = "render_html"
                /\ tools' = r.value
                /\ UNCHANGED error
    /\ UNCHANGED <<readme, index, readme_lines, section_lines, html_output, stdout>>

\* html_output = render_html(tools)
RenderHtml ==
    /\ pc = "render_html"
    /\ html_output' = render_html(tools)
    /\ pc' = "write_text"
    /\ UNCHANGED <<readme, index, readme_lines, section_lines, tools, stdout, error>>

\* index_path.write_text(html_output, encoding="utf-8")
WriteIndex ==
    /\ pc = "write_text"
    /\ index' = html_output
    /\ pc' = "print"
    /\ UNCHANGED <<readme, readme_lines, section_lines, tools, html_output, stdout, error>>

\* print(f"Wrote {index_path}")
PrintWrote ==
    /\ pc = "print"
    /\ stdout' = Append(stdout, "Wrote index.html")
    /\ pc' = "done"
    /\ UNCHANGED <<readme, index, readme_lines, section_lines, tools, html_output, error>>

Next ==
    \/ ReadReadme
    \/ ExtractSection
    \/ ParseListItems
    \/ RenderHtml
    \/ WriteIndex
    \/ PrintWrote

Spec == Init /\ [][Next]_vars

(***************************************************************************)
(* The functions called on their own, on inputs main need not produce.     *)
(***************************************************************************)
InitExtract ==
    /\ pc = "extract_section"
    /\ readme = ""
    /\ index = ""
    /\ readme_lines \in SeqsUpTo(DocLines, MaxDocLines)
    /\ section_lines = <<>>
    /\ tools = <<>>
    /\ html_output = ""
    /\ stdout = <<>>
    /\ error = ""

SpecExtract == InitExtract /\ [][ExtractSection]_vars

InitParse ==
    /\ pc = "parse_list_items"
    /\ readme = ""
    /\ index = ""
    /\ readme_lines = <<>>
    /\ section_lines \in SeqsUpTo(SectionLines, MaxSectionLines)
    /\ tools = <<>>
    /\ html_output = ""
    /\ stdout = <<>>
    /\ error = ""

SpecParse == InitParse /\ [][ParseListItems]_vars

InitRender ==
    /\ pc = "render_html"
    /\ readme = ""
    /\ index = ""
    /\ readme_lines = <<>>
    /\ section_lines = <<>>
    /\ tools \in SeqsUpTo(ToolSet, MaxTools)
    /\ html_output = ""
    /\ stdout = <<>>
    /\ error = ""

SpecRender == InitRender /\ [][RenderHtml]_vars

(***************************************************************************)
(* Vocabulary of the properties                                            *)
(***************************************************************************)
\* sub occurs in s at position i
OccursAt(s, sub, i) == i >= 1 /\ i + Len(sub) - 1 <= Len(s) /\ SubSeq(s, i, i + Len(sub) - 1) = sub

Contains(s, sub) == \E i \in 1..(Len(s) + 1) : OccursAt(s, sub, i)

Occurrences(s, sub) == Cardinality({i \in 1..Len(s) : OccursAt(s, sub, i)})

Least(S) == CHOOSE m \in S : \A n \in S : m <= n

\* The positions of the lines that are the list heading: trimmed and
\* compared without regard to letter case.
HeadingPositions(lines) ==
    {i \in 1..Len(lines) : lower(strip(lines[i])) = lower("## List of tools")}

\* The position of the first line after position i that begins with "#", or
\* one past the last line.
NextHashLine(lines, i) ==
    Least({j \in (i + 1)..Len(lines) : Len(lines[j]) >= 1 /\ Char(lines[j], 1) = "#"}
          \cup {Len(lines) + 1})

(***************************************************************************)
(* extract_section                                                         *)
(***************************************************************************)
\* C1: when some line is the list heading, extract_section returns exactly the
\* lines strictly between the first heading line and the next later line that
\* begins with "#" (or the end), in order and unmodified, without the heading.
C1_SectionBetweenHeadings ==
    (pc # "extract_section" /\ HeadingPositions(readme_lines) # {}) =>
        LET first == Least(HeadingPositions(readme_lines))
            stop == NextHashLine(readme_lines, first)
        IN  /\ pc = "parse_list_items"
            /\ Len(section_lines) = stop - first - 1
            /\ \A k \in 1..Len(section_lines) : section_lines[k] = readme_lines[first + k]

\* A heading after other text, a collected line that is indented "#" text or a
\* second indented heading, and a closing "#" line.
C1_Witness ==
    /\ pc = "parse_list_items"
    /\ Len(readme_lines) = 3
    /\ HeadingPositions(readme_lines) # {}
    /\ Least(HeadingPositions(readme_lines)) = 1
    /\ Len(section_lines) = 1
    /\ startswith(lstrip(section_lines[1]), "#")
    /\ startswith(readme_lines[3], "#")

\* C8: extract_section fails with the heading-not-found error exactly when no
\* line, trimmed and compared without regard to case, is "## List of tools";
\* the message names the heading.
C8_FailsIffHeadingAbsent ==
    (pc # "extract_section") =>
        /\ (pc = "aborted") <=> (HeadingPositions(readme_lines) = {})
        /\ (pc = "aborted") => Contains(error, "## List of tools")
        /\ (pc # "aborted") => error = ""

\* A failed call on a document that has other headings and a near miss.
C8_Witness ==
    /\ pc = "aborted"
    /\ Len(readme_lines) = 3
    /\ \E i \in 1..3 : readme_lines[i] = "## List of tools:"
    /\ \E i \in 1..3 : Len(strip(readme_lines[i])) > 0 /\ ~startswith(readme_lines[i], "#")

(***************************************************************************)
(* render_html                                                             *)
(***************************************************************************)
\* The entity of each character that is escaped.
Entity(c) ==
    CASE c = "&" -> "&amp;"
      [] c = "<" -> "&lt;"
      [] c = ">" -> "&gt;"
      [] c = "\"" -> "&quot;"
      [] c = "'" -> "&#x27;"
      [] OTHER -> c

\* s with each of its characters replaced by its entity.
Escaped(s) == join("", [i \in 1..Len(s) |-> Entity(Char(s, i))])

\* The <li> line of an entry.
ExpectedItem(tool) ==
    "    <li><a href=\"" \o Escaped(tool[2]) \o "\">" \o Escaped(tool[1]) \o "</a>"
        \o (IF tool[3] = "" THEN "" ELSE " - " \o Escaped(tool[3])) \o "</li>"

\* The pieces of text between the newlines of s; the last piece is what
\* follows the last newline.
NewlinePositions(s) == {i \in 1..Len(s) : Char(s, i) = "\n"}

PieceAfter(s, i) ==
    SubSeq(s, i + 1, Least({j \in NewlinePositions(s) : j > i} \cup {Len(s) + 1}) - 1)

\* The k-th line of s, for k up to the number of newlines of s.
RECURSIVE LineStart(_, _)
LineStart(s, k) ==
    IF k = 1 THEN 0
    ELSE LET before == LineStart(s, k - 1)
         IN  Least({j \in NewlinePositions(s) : j > before})

LineOf(s, k) == PieceAfter(s, LineStart(s, k))

NumHeader == Len(HeaderLines)
NumFooter == Len(FooterLines)

\* C2: render_html returns the fixed header lines, one <li> line per entry in
\* input order (link with escaped url and title, " - " and the escaped
\* description only when the description is not empty), the fixed closing
\* lines, and ends with exactly one newline; no <li> for the empty list.
C2_RenderStructure ==
    (pc = "write_text") =>
        LET n == Len(tools)
            total == NumHeader + n + NumFooter
        IN  /\ Cardinality(NewlinePositions(html_output)) = total
            /\ Char(html_output, Len(html_output)) = "\n"
            /\ Char(html_output, Len(html_output) - 1) # "\n"
            /\ \A k \in 1..NumHeader : LineOf(html_output, k) = HeaderLines[k]
            /\ \A i \in 1..n : LineOf(html_output, NumHeader + i) = ExpectedItem(tools[i])
            /\ \A k \in 1..NumFooter :
                   LineOf(html_output, NumHeader + n + k) = FooterLines[k]
            /\ (n = 0) => ~Contains(html_output, "<li>")
            /\ Occurrences(html_output, "<li>") = n

\* Rendered: an entry without description before a different entry with one.
C2_Witness ==
    /\ pc = "write_text"
    /\ Len(tools) >= 2
    /\ tools[1][3] = ""
    /\ tools[2][3] # ""
    /\ Contains(html_output, "</a></li>")
    /\ Contains(html_output, "</a> - ")

\* The text of all the entries' fields.
EntryText(ts) == join("", [i \in 1..Len(ts) |-> ts[i][1] \o ts[i][2] \o ts[i][3]])

Template == join("\n", HeaderLines \o FooterLines)

Entities == {"&amp;", "&lt;", "&gt;", "&quot;", "&#x27;"}

\* C6: no "<", ">", "&" or double quote of an entry reaches the output raw:
\* each appears as its entity, and the raw "<", ">" and double quotes of the
\* output are those of the fixed markup.
C6_NoRawSpecialCharacters ==
    (pc = "write_text") =>
        LET n == Len(tools)
            content == EntryText(tools)
        IN  /\ Occurrences(html_output, "<") = Occurrences(Template, "<") + 4 * n
            /\ Occurrences(html_output, ">") = Occurrences(Template, ">") + 4 * n
            /\ Occurrences(html_output, "\"") = Occurrences(Template, "\"") + 2 * n
            /\ \A i \in 1..Len(html_output) :
                   Char(html_output, i) = "&" =>
                       \E e \in Entities : OccursAt(html_output, e, i)
            /\ Occurrences(html_output, "&lt;") = Occurrences(content, "<")
            /\ Occurrences(html_output, "&gt;") = Occurrences(content, ">")
            /\ Occurrences(html_output, "&quot;") = Occurrences(content, "\"")
            /\ Occurrences(html_output, "&amp;") = Occurrences(content, "&")

\* Rendered entries that hold all four characters, one of them "R&D Tool".
C6_Witness ==
    /\ pc = "write_text"
    /\ \E i \in 1..Len(tools) : tools[i][1] = "R&D Tool"
    /\ Contains(html_output, ">R&amp;D Tool</a>")
    /\ \A c \in {"<", ">", "&", "\""} : Contains(EntryText(tools), c)

(***************************************************************************)
(* parse_list_items                                                        *)
(***************************************************************************)
\* The positions of the lines that begin with "* " once their leading
\* whitespace is removed.
BulletPositions(lines) ==
    {i \in 1..Len(lines) : startswith(lstrip(lines[i]), "* ")}

\* The positions of the lines whose trimmed text (whitespace removed at both
\* ends) begins with "* ".
TrimmedBulletPositions(lines) ==
    {i \in 1..Len(lines) : startswith(strip(lines[i]), "* ")}

\* The k-th smallest member of a set of numbers.
RECURSIVE Kth(_, _)
Kth(S, k) == IF k = 1 THEN Least(S) ELSE Kth(S \ {Least(S)}, k - 1)

\* The first position of character c in s at or after position from, or
\* Len(s) + 1.
FirstAt(s, c, from) ==
    Least({i \in from..Len(s) : Char(s, i) = c} \cup {Len(s) + 1})

\* (TITLE, URL, DESCRIPTION) of an item "* [TITLE](URL) - DESCRIPTION": the
\* text between "[" and the first "]", the text between the "(" that follows
\* and the first ")" after it, and the trimmed text after the hyphen that
\* follows.
FieldsOf(item) ==
    LET rb == FirstAt(item, "]", 4)
        rp == FirstAt(item, ")", rb + 2)
        hy == FirstAt(item, "-", rp + 1)
    IN  <<SubSeq(item, 4, rb - 1),
          SubSeq(item, rb + 2, rp - 1),
          strip(SubSeq(item, hy + 1, Len(item)))>>

\* The statement of C3 for a given set of positions of bullet lines: a
\* successful parse returns one entry per bullet line, the k-th entry being
\* the fields of the item assembled from the k-th bullet line.
EntriesFollowBullets(bullets) ==
    /\ (pc # "parse_list_items" /\ section_lines = <<>>) =>
           pc = "render_html" /\ tools = <<>>
    /\ (pc = "render_html") =>
           LET items == ParseRun(section_lines).matched
           IN  /\ Len(tools) = Cardinality(bullets)
               /\ Len(items) = Len(tools)
               /\ \A k \in 1..Len(tools) :
                      /\ k <= Cardinality(bullets)
                      /\ startswith(items[k], strip(section_lines[Kth(bullets, k)]))
                      /\ tools[k] = FieldsOf(items[k])

\* C3 as stated: a bullet item starts at each line whose trimmed text begins
\* with "* "; a successful parse returns one entry per bullet item, in source
\* order, each the (TITLE, URL, DESCRIPTION) of its assembled item.
C3_Original_TrimmedBullets == EntriesFollowBullets(TrimmedBulletPositions(section_lines))

\* C3 (amended): a bullet item starts at each line that begins with "* " once
\* its leading whitespace is removed (so a line "* " starts one too); a
\* successful parse returns one entry per bullet item, in source order with no
\* merging or deduplication, each the (TITLE, URL, DESCRIPTION) of its
\* assembled item; empty input yields the empty sequence.
C3_EntryPerBulletInOrder == EntriesFollowBullets(BulletPositions(section_lines))

\* Two equal bullet lines parsed into two equal entries, after a first line
\* that is not a bullet.
C3_Witness ==
    /\ pc = "render_html"
    /\ Len(section_lines) = 3
    /\ Len(tools) = 2
    /\ tools[1] = tools[2]
    /\ tools[1] = <<"Foo", "http://a.com", "does foo">>

\* The text of the item that starts at the bullet line at position i, as it is
\* when matched: the trimmed bullet line and, after a space each, the trimmed
\* text of every line up to the next bullet line, trimmed as a whole.
RECURSIVE JoinedFrom(_, _, _)
JoinedFrom(lines, buf, j) ==
    IF j > Len(lines) \/ j \in BulletPositions(lines) THEN buf
    ELSE JoinedFrom(lines, buf \o " " \o strip(lines[j]), j + 1)

ItemAt(lines, i) == strip(JoinedFrom(lines, strip(lines[i]), i + 1))

\* The first position after position i of s that holds no whitespace, or
\* Len(s) + 1.
FirstNonSpaceAfter(s, i) ==
    Least({j \in (i + 1)..Len(s) : ~IsSpace(Char(s, j))} \cup {Len(s) + 1})

\* item is "* [TITLE](URL)" with a non-empty TITLE without "]" and a non-empty
\* URL without ")"; the position of the closing ")" , or 0.
LinkEnd(item) ==
    IF ~startswith(item, "* [") THEN 0
    ELSE LET rb == FirstAt(item, "]", 4)
             rp == FirstAt(item, ")", rb + 2)
         IN  IF rb > 4 /\ OccursAt(item, "](", rb) /\ rp > rb + 2 /\ rp <= Len(item)
             THEN rp ELSE 0

\* The grammar "* [TITLE](URL) - DESCRIPTION" with the literal separator " - ".
MatchesLiteralGrammar(item) ==
    LET rp == LinkEnd(item)
    IN  /\ rp > 0
        /\ OccursAt(item, " - ", rp + 1)
        /\ strip(SubSeq(item, rp + 4, Len(item))) # ""

\* The grammar with optional whitespace on either side of the hyphen.
MatchesLenientGrammar(item) ==
    LET rp == LinkEnd(item)
        hy == FirstNonSpaceAfter(item, rp)
    IN  /\ rp > 0
        /\ OccursAt(item, "-", hy)
        /\ strip(SubSeq(item, hy + 1, Len(item))) # ""

\* The statement of C4 for a given set of positions of bullet lines whose
\* items do not match the grammar.
FailsOnBadItem(bad) ==
    (pc # "parse_list_items" /\ bad # {}) =>
        /\ pc = "aborted"
        /\ tools = <<>>
        /\ startswith(error, "Could not parse list item: ")
        /\ Contains(error, ItemAt(section_lines, Least(bad)))

\* C4 as stated: the parse fails, returning no entries, whenever some item does
\* not match "* [TITLE](URL) - DESCRIPTION" with the literal " - " separator,
\* and the message holds the offending item.
C4_Original_LiteralSeparator ==
    FailsOnBadItem({i \in BulletPositions(section_lines) :
                        ~MatchesLiteralGrammar(ItemAt(section_lines, i))})

\* C4 (amended): the parse fails, returning no entries, whenever some item does
\* not match "* [TITLE](URL)", optional whitespace, a hyphen, optional
\* whitespace and a non-empty DESCRIPTION; the message holds the offending
\* item.
C4_FailsOnMalformedItem ==
    FailsOnBadItem({i \in BulletPositions(section_lines) :
                        ~MatchesLenientGrammar(ItemAt(section_lines, i))})

\* A failed parse whose first item is well-formed and whose second has no
\* hyphen after the link.
C4_Witness ==
    /\ pc = "aborted"
    /\ Len(section_lines) >= 2
    /\ section_lines[1] = "* [Foo](http://a.com) - does foo"
    /\ section_lines[2] = "* [a](u)"
    /\ tools = <<>>
    /\ Contains(error, "* [a](u)")

\* The item that starts at the bullet line at position i as C5 states it: the
\* trimmed bullet line and the trimmed text of each following non-bullet line
\* that is not blank, joined by one space each.
RECURSIVE PartsFrom(_, _)
PartsFrom(lines, j) ==
    IF j > Len(lines) \/ j \in BulletPositions(lines) THEN <<>>
    ELSE (IF strip(lines[j]) = "" THEN <<>> ELSE <<strip(lines[j])>>)
             \o PartsFrom(lines, j + 1)

SingleSpacedItemAt(lines, i) == join(" ", <<strip(lines[i])>> \o PartsFrom(lines, i + 1))

\* C5: the text matched against the grammar is the trimmed bullet line followed
\* by the trimmed text of each following non-bullet, non-blank line, parts
\* joined by exactly one space; blank lines add nothing.
C5_ItemsJoinedBySingleSpace ==
    (pc # "parse_list_items") =>
        LET items == ParseRun(section_lines).matched
        IN  \A k \in 1..Len(items) :
                items[k] = SingleSpacedItemAt(section_lines,
                                              Kth(BulletPositions(section_lines), k))

\* The lines from the first bullet line on.
FromFirstBullet(lines) ==
    IF BulletPositions(lines) = {} THEN <<>>
    ELSE SubSeq(lines, Least(BulletPositions(lines)), Len(lines))

\* C10: the lines before the first bullet line are discarded: the outcome is
\* that of parsing the input without them, and no item holds their text.
C10_LeadingLinesDiscarded ==
    (pc # "parse_list_items") =>
        LET r == parse_list_items(FromFirstBullet(section_lines))
            items == ParseRun(section_lines).matched
        IN  /\ (pc = "aborted") <=> r.raised
            /\ tools = r.value
            /\ error = r.message
            /\ (BulletPositions(section_lines) = {}) => pc = "render_html" /\ tools = <<>>
            /\ items # <<>> =>
                   startswith(items[1],
                              strip(section_lines[Least(BulletPositions(section_lines))]))

\* A parse that succeeds after a line of text and a blank line.
C10_Witness ==
    /\ pc = "render_html"
    /\ Len(section_lines) = 3
    /\ strip(section_lines[1]) # ""
    /\ section_lines[2] = ""
    /\ BulletPositions(section_lines) = {3}
    /\ Len(tools) = 1

(***************************************************************************)
(* main                                                                    *)
(***************************************************************************)
AfterParse == {"render_html", "write_text", "print", "done"}
AfterRender == {"write_text", "print", "done"}
AfterWrite == {"print", "done"}

\* C9: every entry of a successful parse has a non-empty title, a non-empty
\* url and a non-empty description without leading or trailing whitespace, so
\* every <li> line of the written page has the " - " description suffix.
C9_EntriesComplete ==
    /\ (pc \in AfterParse) =>
           \A k \in 1..Len(tools) :
               /\ tools[k][1] # ""
               /\ tools[k][2] # ""
               /\ tools[k][3] # ""
               /\ ~IsSpace(Char(tools[k][3], 1))
               /\ ~IsSpace(Char(tools[k][3], Len(tools[k][3])))
    /\ (pc \in AfterRender) =>
           /\ Occurrences(html_output, "<li>") = Len(tools)
           /\ Occurrences(html_output, "</a> - ") = Len(tools)
           /\ ~Contains(html_output, "</a></li>")
    /\ (pc \in AfterWrite) => index = html_output

\* A finished run whose page lists an entry assembled from a bullet line and a
\* blank line after it.
C9_Witness ==
    /\ pc = "done"
    /\ Len(tools) = 1
    /\ Len(section_lines) = 2
    /\ section_lines[2] = ""
    /\ Contains(index, "</a> - does foo</li>")

\* The page of a README, when extraction and parsing succeed.
Extracted(text) == extract_section(splitlines(text))
Parsed(text) == parse_list_items(Extracted(text).value)
PageOf(text) == render_html(Parsed(text).value)
Fails(text) == Extracted(text).raised \/ Parsed(text).raised

\* C7: index.html is written only by the write step, after extraction,
\* parsing and rendering succeeded, and with the full rendered text; the
\* completion message is printed only after the write; a run in which
\* extraction or parsing fails aborts, leaves index.html as it was and prints
\* nothing.
C7_WriteOnlyAfterSuccess ==
    /\ [][ /\ (index' # index) =>
                  /\ pc = "write_text" /\ pc' = "print"
                  /\ ~Fails(readme)
                  /\ index' = PageOf(readme)
           /\ (stdout' # stdout) =>
                  /\ pc = "print" /\ pc' = "done"
                  /\ index = PageOf(readme)
                  /\ stdout' = <<"Wrote index.html">>
           /\ (pc = "aborted") => (pc' = "aborted" /\ index' = index)
         ]_vars
    /\ [](pc \in AfterParse => ~Fails(readme))
    /\ [](pc = "aborted" => Fails(readme) /\ stdout = <<>> /\ error # "")
    /\ [](pc \in AfterWrite => index = PageOf(readme))
    /\ [](pc = "done" => stdout = <<"Wrote index.html">>)

\* A finished run whose index.html holds the page of two entries.
C7_Witness ==
    /\ pc = "done"
    /\ Len(tools) = 2
    /\ index = html_output
    /\ ~Contains(index, "stale")
    /\ stdout = <<"Wrote index.html">>

====
